---- MODULE Spec2Model ----
(***************************************************************************)
(* BinaryBuilder (extras/binarybuilder/Source/Main.cpp): a command-line    *)
(* tool that turns the files of a directory tree into a .h/.cpp pair.      *)
(* Strings are sequences of one-character strings; a File is its path (a   *)
(* sequence of names, the source root's own name first).                   *)
(***************************************************************************)
EXTENDS Integers, Sequences, FiniteSets, TLC

(* ------------------------------ bounds -------------------------------- *)
\* at most this many regular files exist under the source directory
MaxFiles == 3
\* argc ranges over 1..MaxArgc
MaxArgc == 6
\* the length of the longest file of the universe (long enough to wrap a line)
LongFileLen == 41

(* ------------------------- program constants -------------------------- *)
\* values written per line of the array literal before the soft wrap
WrapColumns == 40
\* the column (i % 40) after which the line break is written
WrapAt == 39
\* the largest size_t, as far as the model's integers go
SizeMax == 2147483647

(* ------------------------------ strings ------------------------------- *)
LowerLetters == <<"a","b","c","d","e","f","g","h","i","j","k","l","m",
                  "n","o","p","q","r","s","t","u","v","w","x","y","z">>
UpperLetters == <<"A","B","C","D","E","F","G","H","I","J","K","L","M",
                  "N","O","P","Q","R","S","T","U","V","W","X","Y","Z">>
DigitChars == <<"0","1","2","3","4","5","6","7","8","9">>

\* the argument of retainCharacters in addFile
RetainedChars == {LowerLetters[j] : j \in 1..26} \cup {"_"}
                   \cup {DigitChars[j] : j \in 1..10}

toLowerChar(c) ==
    IF \E j \in 1..26 : UpperLetters[j] = c
    THEN LowerLetters[CHOOSE j \in 1..26 : UpperLetters[j] = c]
    ELSE c

toUpperChar(c) ==
    IF \E j \in 1..26 : LowerLetters[j] = c
    THEN UpperLetters[CHOOSE j \in 1..26 : LowerLetters[j] = c]
    ELSE c

toLowerCase(s) == [j \in 1..Len(s) |-> toLowerChar(s[j])]
toUpperCase(s) == [j \in 1..Len(s) |-> toUpperChar(s[j])]

replaceCharacter(s, from, to) ==
    [j \in 1..Len(s) |-> IF s[j] = from THEN to ELSE s[j]]

retainCharacters(s, keep) == SelectSeq(s, LAMBDA c : c \in keep)

startsWithChar(s, c) == Len(s) > 0 /\ s[1] = c

endsWithIgnoreCase(s, suffix) ==
    /\ Len(s) >= Len(suffix)
    /\ toLowerCase(SubSeq(s, Len(s) - Len(suffix) + 1, Len(s))) = toLowerCase(suffix)

IsWhitespace(c) == c \in {" ", "\t"}

RECURSIVE trimStart(_)
trimStart(s) ==
    IF Len(s) > 0 /\ IsWhitespace(s[1]) THEN trimStart(Tail(s)) ELSE s

RECURSIVE trimEnd(_)
trimEnd(s) ==
    IF Len(s) > 0 /\ IsWhitespace(s[Len(s)])
    THEN trimEnd(SubSeq(s, 1, Len(s) - 1)) ELSE s

trim(s) == trimEnd(trimStart(s))

\* String::matchesWildcard: '*' matches any run of characters, '?' any one
RECURSIVE matchesWildcard(_, _)
matchesWildcard(s, w) ==
    IF Len(w) = 0 THEN Len(s) = 0
    ELSE IF w[1] = "*"
         THEN \E k \in 0..Len(s) : matchesWildcard(SubSeq(s, k + 1, Len(s)), Tail(w))
         ELSE /\ Len(s) > 0
              /\ (w[1] = "?" \/ w[1] = s[1])
              /\ matchesWildcard(Tail(s), Tail(w))

\* operator<< (int): the decimal digits of a non-negative number
RECURSIVE Decimal(_)
Decimal(n) ==
    IF n < 10 THEN <<DigitChars[n + 1]>>
    ELSE Decimal(n \div 10) \o <<DigitChars[(n % 10) + 1]>>

(* ------------------------------- files -------------------------------- *)
\* A File object: the path, and what stat says about it.
File(path, isDir, size) == [path |-> path, isDir |-> isDir, size |-> size]

getFileName(f) == f.path[Len(f.path)]

\* the parent of anything under the source directory is a directory
getParentDirectory(f) == File(SubSeq(f.path, 1, Len(f.path) - 1), TRUE, 0)

\* File::operator!= compares the full path names
FileNotEqual(f, g) == f.path # g.path

\* a predicate that looks at the file and its parent only
isHiddenFileOneLevel(f, root) ==
    LET hiddenHere(g) ==
            \/ endsWithIgnoreCase(getFileName(g), <<".", "s", "c", "c">>)
            \/ getFileName(g) = <<".", "s", "v", "n">>
            \/ startsWithChar(getFileName(g), ".")
            \/ (g.size = 0 /\ ~ g.isDir)
    IN  \/ hiddenHere(f)
        \/ (FileNotEqual(getParentDirectory(f), root) /\ hiddenHere(getParentDirectory(f)))

\* a predicate without the test for a leading dot
RECURSIVE isHiddenFileNoDotTest(_, _)
isHiddenFileNoDotTest(f, root) ==
    \/ endsWithIgnoreCase(getFileName(f), <<".", "s", "c", "c">>)
    \/ getFileName(f) = <<".", "s", "v", "n">>
    \/ (f.size = 0 /\ ~ f.isDir)
    \/ (FileNotEqual(getParentDirectory(f), root)
          /\ isHiddenFileNoDotTest(getParentDirectory(f), root))

\* a predicate without the size test
RECURSIVE isHiddenFileNoSizeTest(_, _)
isHiddenFileNoSizeTest(f, root) ==
    \/ endsWithIgnoreCase(getFileName(f), <<".", "s", "c", "c">>)
    \/ getFileName(f) = <<".", "s", "v", "n">>
    \/ startsWithChar(getFileName(f), ".")
    \/ (FileNotEqual(getParentDirectory(f), root)
          /\ isHiddenFileNoSizeTest(getParentDirectory(f), root))

RECURSIVE isHiddenFile(_, _)
isHiddenFile(f, root) ==
    \/ endsWithIgnoreCase(getFileName(f), <<".", "s", "c", "c">>)
    \/ getFileName(f) = <<".", "s", "v", "n">>
    \/ startsWithChar(getFileName(f), ".")
    \/ (f.size = 0 /\ ~ f.isDir)
    \/ (FileNotEqual(getParentDirectory(f), root)
          /\ isHiddenFile(getParentDirectory(f), root))

\* a symbol name that drops the dots instead of replacing them
SymbolNameDotsDropped(f) ==
    retainCharacters(
        replaceCharacter(toLowerCase(getFileName(f)), " ", "_"),
        RetainedChars)

\* the symbol name addFile derives from the file name
SymbolName(f) ==
    retainCharacters(
        replaceCharacter(
            replaceCharacter(toLowerCase(getFileName(f)), " ", "_"),
            ".", "_"),
        RetainedChars)

(* ------------------------- the inputs of a run ------------------------ *)
\* the names the source directory may have
RootNames == { <<"r">>, <<".", "r", "e", "s">> }

LongData == [k \in 1..LongFileLen |-> (k * 37) % 256]

\* the regular files that may exist under the source directory: the path
\* relative to the source directory, and the contents
Universe ==
    { [rel |-> << <<"a", ".", "b">> >>,                        data |-> <<7>>],
      [rel |-> << <<"A", " ", "b">> >>,                        data |-> <<0, 255>>],
      [rel |-> << <<"a", "-", "b">> >>,                        data |-> LongData],
      [rel |-> << <<"d">>, <<"a", ".", "b">> >>,               data |-> <<10, 200>>],
      [rel |-> << <<"d">>, <<"e", "2">>, <<"c">> >>,           data |-> <<3>>],
      [rel |-> << <<".", "d">>, <<"c">> >>,                    data |-> <<4>>],
      [rel |-> << <<".", "d">>, <<"e">>, <<"c">> >>,           data |-> <<5>>],
      [rel |-> << <<"x", ".", "S", "c", "C">>, <<"c">> >>,     data |-> <<6>>],
      [rel |-> << <<".", "s", "v", "n">>, <<"c">> >>,          data |-> <<8>>],
      [rel |-> << <<"c", ".", "s", "c", "c">> >>,              data |-> <<9>>],
      [rel |-> << <<".", "c">> >>,                             data |-> <<11>>],
      [rel |-> << <<"d">>, <<".", "c">> >>,                    data |-> <<12>>],
      [rel |-> << <<"z">> >>,                                  data |-> << >>],
      [rel |-> << <<"d">>, <<"z", ".", "b">> >>,               data |-> << >>] }

\* argv[3], the class name, as typed
ClassArgs == { <<" ", "R", "s", " ">> }

\* argv[4], the optional wildcard
PatternArgs == { <<"*", ".", "b">> }

DefaultPattern == <<"*">>

\* all orders in which a set of files can be returned
Orderings(S) ==
    { s \in [1..Cardinality(S) -> S] :
        \A j, k \in 1..Cardinality(S) : j # k => s[j] # s[k] }

(* ------------------------------- state -------------------------------- *)
VARIABLES
    pc,          \* the position of main
    sourceDirectory, \* the File of the source directory
    srcIsDir,    \* sourceDirectory.isDirectory()
    tree,        \* the regular files under the source directory: [path, data]
    destIsDir,   \* destDirectory.isDirectory()
    destH,       \* <className>.h on disk: "absent", "stale" or "created"
    destC,       \* <className>.cpp on disk
    argc,        \* number of arguments, program name included
    argv3,       \* argv[3]
    wildcard,    \* argv[4] or "*"
    className,
    files,       \* Array<File> filled by findChildFiles
    i,           \* loop index of main
    totalBytes,
    tempNum,     \* static int tempNum of addFile
    header,      \* the header stream is open
    cpp,         \* the cpp stream is open
    headerOut,   \* what was written to the header stream
    cppOut,      \* what was written to the cpp stream
    stdout,      \* what was printed
    calls        \* the files addFile was called with, in call order

vars == << pc, sourceDirectory, srcIsDir, tree, destIsDir, destH, destC, argc,
           argv3, wildcard, className, files, i, totalBytes, tempNum, header,
           cpp, headerOut, cppOut, stdout, calls >>

\* an item written to a stream or printed
Tok(kind, name, num, text) == [kind |-> kind, name |-> name, num |-> num, text |-> text]

NoStr == << >>

Init ==
    /\ pc = "start"
    /\ \E rn \in RootNames :
         /\ sourceDirectory = File(<<rn>>, TRUE, 0)
         /\ srcIsDir \in BOOLEAN
         /\ \E U \in SUBSET Universe :
              /\ Cardinality(U) <= MaxFiles
              /\ srcIsDir = FALSE => U = {}
              /\ tree = { [path |-> <<rn>> \o u.rel, data |-> u.data] : u \in U }
    /\ destIsDir \in BOOLEAN
    /\ destH \in {"absent", "stale"}
    /\ destC \in {"absent", "stale"}
    /\ destIsDir = FALSE => (destH = "absent" /\ destC = "absent")
    /\ argc = 0
    /\ argv3 = NoStr
    /\ wildcard = NoStr
    /\ className = NoStr
    /\ files = << >>
    /\ i = 0
    /\ totalBytes = 0
    /\ tempNum = 0
    /\ header = FALSE
    /\ cpp = FALSE
    /\ headerOut = << >>
    /\ cppOut = << >>
    /\ stdout = << >>
    /\ calls = << >>

(* ------------------------------ addFile ------------------------------- *)
\* File::loadFileAsData: the contents of the file at that path
loadFileAsData(file) == (CHOOSE e \in tree : e.path = file.path).data

\* mb.getSize() - 1 in size_t arithmetic: an empty block wraps to the largest
\* size_t, for which SizeMax stands (above every index a file of the model has)
SizeMinusOne(size) == IF size >= 1 THEN size - 1 ELSE SizeMax

\* a loop that leaves out the comma before the line break
RECURSIVE ArrayLoopNoCommaAtWrap(_, _, _)
ArrayLoopNoCommaAtWrap(data, k, text) ==
    IF k < SizeMinusOne(Len(data))
    THEN ArrayLoopNoCommaAtWrap(data, k + 1,
             IF (k % WrapColumns) # WrapAt
             THEN text \o Decimal(data[k + 1]) \o <<",">>
             ELSE text \o Decimal(data[k + 1]) \o <<"CR", "LF", " ", " ">>)
    ELSE text \o Decimal(data[k + 1]) \o <<",", "0", ",", "0">>

\* (int) data[k]: inside the block the byte; past its end the read is
\* undefined, and "?" stands for whatever the build then writes
ByteText(data, k) == IF k < Len(data) THEN Decimal(data[k + 1]) ELSE <<"?">>

\* the loop of addFile and the line after it: the text between '{' and '}';
\* once a read has left the block the rest of the text is undefined as well
RECURSIVE ArrayLoop(_, _, _)
ArrayLoop(data, k, text) ==
    IF k < SizeMinusOne(Len(data))
    THEN IF k >= Len(data)
         THEN text \o ByteText(data, k)
         ELSE ArrayLoop(data, k + 1,
                  IF (k % WrapColumns) # WrapAt
                  THEN text \o ByteText(data, k) \o <<",">>
                  ELSE text \o ByteText(data, k) \o <<",", "CR", "LF", " ", " ">>)
    ELSE text \o ByteText(data, k) \o <<",", "0", ",", "0">>

\* the index of the last read of addFile: the loop ends with i = size - 1
LastIndexRead(data) == SizeMinusOne(Len(data))

ArrayText(data) == ArrayLoop(data, 0, << >>)

\* (int) mb.getSize() is mb.getSize(): the files of the model are far below 2^31 bytes
addFileStdout(file, mb) ==
    << Tok("adding", SymbolName(file), Len(mb), NoStr) >>

addFileHeader(file, mb) ==
    << Tok("decl", SymbolName(file), Len(mb), NoStr) >>

\* an array numbered before the counter is incremented
addFileCppPostIncrement(file, classname, mb, num) ==
    << Tok("array", NoStr, num - 1, ArrayText(mb)),
       Tok("alias", SymbolName(file), num, classname) >>

addFileCpp(file, classname, mb, num) ==
    << Tok("array", NoStr, num, ArrayText(mb)),
       Tok("alias", SymbolName(file), num, classname) >>

\* a return value that counts the two terminating zeros as well
addFileReturnWithTerminator(mb) == Len(mb) + 2

addFileReturn(mb) == Len(mb)

(* ------------------------------- main --------------------------------- *)
\* a test that lets a run with two arguments through
UsageErrorOffByOne(n) == n < 3 \/ n > 5

\* line 76: the test for a usage error
UsageError(n) == n < 4 \/ n > 5

\* lines 74-87: the banner and the argument count
CheckArgs ==
    /\ pc = "start"
    /\ \E n \in 1..MaxArgc, a3 \in ClassArgs, a4 \in PatternArgs :
         /\ argc' = n
         /\ IF UsageError(n)
            THEN /\ stdout' = stdout \o << Tok("banner", NoStr, 0, NoStr),
                                           Tok("usage", NoStr, 0, NoStr) >>
                 /\ pc' = "done"
                 /\ UNCHANGED << argv3, wildcard >>
            ELSE /\ stdout' = Append(stdout, Tok("banner", NoStr, 0, NoStr))
                 /\ pc' = "source"
                 /\ argv3' = a3
                 /\ wildcard' = IF n > 4 THEN a4 ELSE DefaultPattern
    /\ UNCHANGED << sourceDirectory, srcIsDir, tree, destIsDir, destH, destC,
                    className, files, i, totalBytes, tempNum, header, cpp,
                    headerOut, cppOut, calls >>

\* lines 89-99
CheckSource ==
    /\ pc = "source"
    /\ IF ~ srcIsDir
       THEN /\ stdout' = Append(stdout, Tok("nosource", NoStr, 0, NoStr))
            /\ pc' = "done"
       ELSE /\ pc' = "dest"
            /\ UNCHANGED stdout
    /\ UNCHANGED << sourceDirectory, srcIsDir, tree, destIsDir, destH, destC,
                    argc, argv3, wildcard, className, files, i, totalBytes,
                    tempNum, header, cpp, headerOut, cppOut, calls >>

\* lines 101-110
CheckDest ==
    /\ pc = "dest"
    /\ IF ~ destIsDir
       THEN /\ stdout' = Append(stdout, Tok("nodest", NoStr, 0, NoStr))
            /\ pc' = "done"
       ELSE /\ pc' = "collect"
            /\ UNCHANGED stdout
    /\ UNCHANGED << sourceDirectory, srcIsDir, tree, destIsDir, destH, destC,
                    argc, argv3, wildcard, className, files, i, totalBytes,
                    tempNum, header, cpp, headerOut, cppOut, calls >>

\* File::findChildFiles (findFiles, recursive): every regular file under the
\* directory whose name matches the wildcard, in an order the file system picks
findChildFiles(dir, pattern) ==
    Orderings({ File(e.path, FALSE, Len(e.data)) :
                  e \in { t \in tree : matchesWildcard(t.path[Len(t.path)], pattern) } })

\* an empty-result test that looks at the retained files
NoFilesFoundAfterFilter(found) ==
    Len(SelectSeq(found, LAMBDA f : ~ isHiddenFile(f, sourceDirectory))) = 0

\* line 127: the test for an empty result
NoFilesFound(found) == Len(found) = 0

\* lines 112-132
Collect ==
    /\ pc = "collect"
    /\ className' = trim(argv3)
    /\ \E found \in findChildFiles(sourceDirectory, wildcard) :
         /\ files' = found
         /\ IF NoFilesFound(found)
            THEN /\ stdout' = stdout \o << Tok("creating", NoStr, 0, NoStr),
                                           Tok("nofiles", NoStr, 0, NoStr) >>
                 /\ pc' = "done"
            ELSE /\ stdout' = Append(stdout, Tok("creating", NoStr, 0, NoStr))
                 /\ pc' = "delete"
    /\ UNCHANGED << sourceDirectory, srcIsDir, tree, destIsDir, destH, destC,
                    argc, argv3, wildcard, i, totalBytes, tempNum, header, cpp,
                    headerOut, cppOut, calls >>

\* a deletion that forgets the cpp file
DeleteOutputsHeaderOnly ==
    /\ pc = "delete"
    /\ destH' = "absent"
    /\ pc' = "openHeader"
    /\ UNCHANGED << sourceDirectory, srcIsDir, tree, destIsDir, destC, argc, argv3,
                    wildcard, className, files, i, totalBytes, tempNum, header,
                    cpp, headerOut, cppOut, stdout, calls >>

\* lines 134-135
DeleteOutputs ==
    /\ pc = "delete"
    /\ destH' = "absent"
    /\ destC' = "absent"
    /\ pc' = "openHeader"
    /\ UNCHANGED << sourceDirectory, srcIsDir, tree, destIsDir, argc, argv3,
                    wildcard, className, files, i, totalBytes, tempNum, header,
                    cpp, headerOut, cppOut, stdout, calls >>

\* lines 137-144: createOutputStream gives a stream or 0
OpenHeader ==
    /\ pc = "openHeader"
    /\ \E opened \in BOOLEAN :
         IF opened
         THEN /\ header' = TRUE
              /\ destH' = "created"
              /\ pc' = "openCpp"
              /\ UNCHANGED stdout
         ELSE /\ stdout' = Append(stdout, Tok("cantopen", <<"h">>, 0, NoStr))
              /\ pc' = "done"
              /\ UNCHANGED << header, destH >>
    /\ UNCHANGED << sourceDirectory, srcIsDir, tree, destIsDir, destC, argc,
                    argv3, wildcard, className, files, i, totalBytes, tempNum,
                    cpp, headerOut, cppOut, calls >>

\* lines 146-153; leaving main releases the header stream
OpenCpp ==
    /\ pc = "openCpp"
    /\ \E opened \in BOOLEAN :
         IF opened
         THEN /\ cpp' = TRUE
              /\ destC' = "created"
              /\ pc' = "prolog"
              /\ UNCHANGED << stdout, header >>
         ELSE /\ stdout' = Append(stdout, Tok("cantopen", <<"c", "p", "p">>, 0, NoStr))
              /\ pc' = "done"
              /\ header' = FALSE
              /\ UNCHANGED << cpp, destC >>
    /\ UNCHANGED << sourceDirectory, srcIsDir, tree, destIsDir, destH, argc,
                    argv3, wildcard, className, files, i, totalBytes, tempNum,
                    headerOut, cppOut, calls >>

\* lines 155-164
WriteProlog ==
    /\ pc = "prolog"
    /\ headerOut' = Append(headerOut,
                       Tok("prolog", className, 0,
                           <<"B","I","N","A","R","Y","_">> \o toUpperCase(className)
                              \o <<"_","H">>))
    /\ cppOut' = Append(cppOut, Tok("prolog", className, 0, NoStr))
    /\ totalBytes' = 0
    /\ i' = 0
    /\ pc' = "loop"
    /\ UNCHANGED << sourceDirectory, srcIsDir, tree, destIsDir, destH, destC,
                    argc, argv3, wildcard, className, files, tempNum, header,
                    cpp, stdout, calls >>

\* a guard named after the first directory below the source directory
GuardSymbolTopLevel(file) == toUpperCase(file.path[2])

\* lines 175-176: the symbol of the #ifdef around a file of a sub-directory
GuardSymbol(file) == toUpperCase(getFileName(getParentDirectory(file)))

\* lines 166-188: one pass of the loop over files
LoopBody ==
    /\ pc = "loop"
    /\ i < Len(files)
    /\ LET file == files[i + 1]
           mb == loadFileAsData(file)
           guard == Tok("ifdef", GuardSymbol(file), 0, NoStr)
           endif == Tok("endif", NoStr, 0, NoStr)
       IN  IF ~ isHiddenFile(file, sourceDirectory)
           THEN /\ tempNum' = tempNum + 1
                /\ stdout' = stdout \o addFileStdout(file, mb)
                /\ totalBytes' = totalBytes + addFileReturn(mb)
                /\ calls' = Append(calls, file)
                /\ IF FileNotEqual(getParentDirectory(file), sourceDirectory)
                   THEN /\ headerOut' = headerOut \o <<guard>>
                                          \o addFileHeader(file, mb) \o <<endif>>
                        /\ cppOut' = cppOut \o <<guard>>
                                       \o addFileCpp(file, className, mb, tempNum + 1)
                                       \o <<endif>>
                   ELSE /\ headerOut' = headerOut \o addFileHeader(file, mb)
                        /\ cppOut' = cppOut \o addFileCpp(file, className, mb, tempNum + 1)
           ELSE UNCHANGED << tempNum, stdout, totalBytes, calls, headerOut, cppOut >>
    /\ i' = i + 1
    /\ UNCHANGED << pc, sourceDirectory, srcIsDir, tree, destIsDir, destH, destC,
                    argc, argv3, wildcard, className, files, header, cpp >>

\* a finish that forgets to close the cpp stream
FinishLeavesCppOpen ==
    /\ pc = "loop"
    /\ ~ (i < Len(files))
    /\ headerOut' = Append(headerOut, Tok("epilog", NoStr, 0, NoStr))
    /\ header' = FALSE
    /\ pc' = "total"
    /\ UNCHANGED << sourceDirectory, srcIsDir, tree, destIsDir, destH, destC,
                    argc, argv3, wildcard, className, files, i, totalBytes,
                    tempNum, cpp, cppOut, stdout, calls >>

\* lines 190-194: the closing boilerplate, and both streams are closed
Finish ==
    /\ pc = "loop"
    /\ ~ (i < Len(files))
    /\ headerOut' = Append(headerOut, Tok("epilog", NoStr, 0, NoStr))
    /\ header' = FALSE
    /\ cpp' = FALSE
    /\ pc' = "total"
    /\ UNCHANGED << sourceDirectory, srcIsDir, tree, destIsDir, destH, destC,
                    argc, argv3, wildcard, className, files, i, totalBytes,
                    tempNum, cppOut, stdout, calls >>

\* lines 196-198
ReportTotal ==
    /\ pc = "total"
    /\ stdout' = Append(stdout, Tok("total", NoStr, totalBytes, NoStr))
    /\ pc' = "done"
    /\ UNCHANGED << sourceDirectory, srcIsDir, tree, destIsDir, destH, destC,
                    argc, argv3, wildcard, className, files, i, totalBytes,
                    tempNum, header, cpp, headerOut, cppOut, calls >>

Next ==
    \/ CheckArgs
    \/ CheckSource
    \/ CheckDest
    \/ Collect
    \/ DeleteOutputs
    \/ OpenHeader
    \/ OpenCpp
    \/ WriteProlog
    \/ LoopBody
    \/ Finish
    \/ ReportTotal

Spec == Init /\ [][Next]_vars

(* ====================================================================== *)
(*                              the claims                                *)
(* ====================================================================== *)
RECURSIVE SumNum(_)
SumNum(toks) == IF Len(toks) = 0 THEN 0 ELSE toks[1].num + SumNum(Tail(toks))

RECURSIVE SumLen(_)
SumLen(fs) ==
    IF Len(fs) = 0 THEN 0
    ELSE Len((CHOOSE e \in tree : e.path = fs[1].path).data) + SumLen(Tail(fs))

OfKind(out, kind) == SelectSeq(out, LAMBDA t : t.kind = kind)
Printed(kind) == \E k \in 1..Len(stdout) : stdout[k].kind = kind

\* the hidden predicate on a name, as the specification words it
NameIsHidden(name) ==
    \/ (Len(name) > 0 /\ name[1] = ".")
    \/ name = <<".", "s", "v", "n">>
    \/ (Len(name) >= 4
          /\ toLowerCase(SubSeq(name, Len(name) - 3, Len(name))) = <<".", "s", "c", "c">>)

\* a directory strictly between the source directory and the file has a hidden name
HasHiddenDirectory(f) == \E d \in 2..(Len(f.path) - 1) : NameIsHidden(f.path[d])

ContentsOf(f) == (CHOOSE e \in tree : e.path = f.path).data
WasCalled(f) == \E k \in 1..Len(calls) : calls[k].path = f.path
InSubDirectory(f) == Len(f.path) > 2

\* C1: when the total line is printed, its number is the sum of the numbers of
\* the "Adding" lines, which is the sum of the sizes of the files addFile was
\* called with, and those are the collected files isHiddenFile let through.
C1_TotalIsSumOfAdded ==
    Printed("total") =>
        /\ OfKind(stdout, "total")[1].num = SumNum(OfKind(stdout, "adding"))
        /\ SumNum(OfKind(stdout, "adding")) = SumLen(calls)
        /\ calls = SelectSeq(files, LAMBDA f : ~ isHiddenFile(f, sourceDirectory))

C1_Witness ==
    /\ Printed("total")
    /\ Len(calls) >= 2
    /\ Len(calls) < Len(files)
    /\ \E k \in 1..Len(calls) : InSubDirectory(calls[k])
    /\ \E k \in 1..Len(calls) : ~ InSubDirectory(calls[k])

\* the files that remain after the wildcard and the hidden-file predicate
Matching == { f \in { File(e.path, FALSE, Len(e.data)) : e \in tree } :
                 matchesWildcard(getFileName(f), wildcard) }
Retained == { f \in Matching : ~ isHiddenFile(f, sourceDirectory) }

DestinationUntouched ==
    /\ destH' = destH
    /\ destC' = destC
    /\ headerOut' = headerOut
    /\ cppOut' = cppOut
    /\ header' = header
    /\ cpp' = cpp

C3_HiddenDirectories ==
    /\ \A k \in 1..Len(calls) : ~ HasHiddenDirectory(calls[k])
    /\ pc = "total" =>
         \A k \in 1..Len(files) :
            (Len(files[k].path) = 2 /\ ~ NameIsHidden(getFileName(files[k]))
               /\ Len(ContentsOf(files[k])) > 0) => WasCalled(files[k])

C3_Witness ==
    /\ pc = "total"
    /\ NameIsHidden(getFileName(sourceDirectory))
    /\ \E k \in 1..Len(calls) : Len(calls[k].path) = 2
    /\ \E k \in 1..Len(files) :
          /\ HasHiddenDirectory(files[k])
          /\ ~ NameIsHidden(getFileName(getParentDirectory(files[k])))
          /\ ~ NameIsHidden(getFileName(files[k]))
          /\ files[k].size > 0
          /\ ~ WasCalled(files[k])

\* C4: a file whose own name starts with '.', or that is empty, is never passed
\* to addFile, in the source directory or below it; and every declaration,
\* array and "Adding" line comes from a call of addFile.
C4_DotAndEmptyFiles ==
    /\ \A k \in 1..Len(calls) :
          /\ getFileName(calls[k])[1] # "."
          /\ Len(ContentsOf(calls[k])) > 0
    /\ Len(OfKind(headerOut, "decl")) = Len(calls)
    /\ Len(OfKind(cppOut, "array")) = Len(calls)
    /\ Len(OfKind(stdout, "adding")) = Len(calls)
    /\ Printed("total") => OfKind(stdout, "total")[1].num = SumLen(calls)

C4_Witness ==
    /\ pc = "total"
    /\ Len(calls) >= 1
    /\ \E k \in 1..Len(files) : getFileName(files[k])[1] = "." /\ InSubDirectory(files[k])
    /\ \E k \in 1..Len(files) : Len(ContentsOf(files[k])) = 0

\* reading an array literal back: the numbers between the commas, white space
\* and line breaks skipped; a piece that is no number reads as -1
DigitValue(c) == IF \E d \in 1..10 : DigitChars[d] = c
                 THEN (CHOOSE d \in 1..10 : DigitChars[d] = c) - 1
                 ELSE -1

\* one number: from position k up to the next comma or the end
RECURSIVE ReadNumber(_, _, _, _)
ReadNumber(text, k, cur, bad) ==
    IF k > Len(text) \/ text[k] = ","
    THEN [val |-> IF bad THEN -1 ELSE cur, next |-> k]
    ELSE IF text[k] \in {"CR", "LF", " "}
         THEN ReadNumber(text, k + 1, cur, bad)
    ELSE IF DigitValue(text[k]) < 0
         THEN ReadNumber(text, k + 1, cur, TRUE)
    ELSE ReadNumber(text, k + 1,
                    (IF cur < 0 THEN 0 ELSE cur * 10) + DigitValue(text[k]), bad)

RECURSIVE ParseArray(_, _, _)
ParseArray(text, k, acc) ==
    LET r == ReadNumber(text, k, -1, FALSE)
    IN  IF r.next > Len(text) THEN Append(acc, r.val)
        ELSE ParseArray(text, r.next + 1, Append(acc, r.val))

ValuesOf(text) == ParseArray(text, 1, << >>)

\* C5: in the finished outputs the k-th array holds the bytes of the k-th
\* encoded file in order, each a number in 0..255, then two zeros (n + 2
\* values); without the last two values it reads back as the file; and the
\* k-th <name>Size is n.
C5_ArrayRoundTrip ==
    pc = "total" =>
    /\ Len(OfKind(cppOut, "array")) = Len(calls)
    /\ Len(OfKind(headerOut, "decl")) = Len(calls)
    /\ \A k \in 1..Len(calls) :
         LET data == ContentsOf(calls[k])
             n == Len(data)
             vals == ValuesOf(OfKind(cppOut, "array")[k].text)
         IN  n >= 1 =>
               /\ Len(vals) = n + 2
               /\ \A v \in 1..Len(vals) : vals[v] \in 0..255
               /\ SubSeq(vals, 1, n) = data
               /\ vals[n + 1] = 0 /\ vals[n + 2] = 0
               /\ OfKind(headerOut, "decl")[k].num = n

C5_Witness ==
    /\ pc = "total"
    /\ \E k \in 1..Len(calls) :
          /\ Len(ContentsOf(calls[k])) > WrapColumns
          /\ \E c \in 1..Len(OfKind(cppOut, "array")[k].text) :
                OfKind(cppOut, "array")[k].text[c] = "CR"
    /\ \E k \in 1..Len(calls) : ContentsOf(calls[k]) = <<0, 255>>

ValidationFailed == (argc' < 4 \/ argc' > 5) \/ ~ srcIsDir \/ ~ destIsDir

\* C6: a wrong argument count, a source that is no directory or a destination
\* that is no directory ends the run with its message alone after the banner
\* (the first failing check in the order count, source, destination), with the
\* collector never run and the destination files never touched.
C6_ValidationFailures ==
    /\ []( pc # "start" =>
            /\ (argc < 4 \/ argc > 5) =>
                  (pc = "done" /\ [k \in 1..Len(stdout) |-> stdout[k].kind] = <<"banner", "usage">>)
            /\ ((argc = 4 \/ argc = 5) /\ ~ srcIsDir /\ pc = "done") =>
                  [k \in 1..Len(stdout) |-> stdout[k].kind] = <<"banner", "nosource">>
            /\ ((argc = 4 \/ argc = 5) /\ srcIsDir /\ ~ destIsDir /\ pc = "done") =>
                  [k \in 1..Len(stdout) |-> stdout[k].kind] = <<"banner", "nodest">>
            /\ ((argc < 4 \/ argc > 5) \/ ~ srcIsDir \/ ~ destIsDir) =>
                  (pc \in {"source", "dest", "done"} /\ files = << >>) )
    /\ [][ ValidationFailed => (DestinationUntouched /\ files' = files) ]_vars

C6_Witness ==
    /\ pc = "done"
    /\ argc = 5
    /\ ~ srcIsDir
    /\ ~ destIsDir
    /\ stdout[Len(stdout)].kind = "nosource"

\* the position of the m-th item of a kind in a stream
PosOf(out, kind, m) ==
    CHOOSE p \in 1..Len(out) :
        out[p].kind = kind /\ Len(OfKind(SubSeq(out, 1, p), kind)) = m

\* C7: the declaration and the definition of an encoded file of a
\* sub-directory stand between "#ifdef <PARENT>" and "#endif", PARENT being the
\* upper-cased name of the immediate parent, the same on both sides; those of a
\* file of the source directory have no guard; so every #ifdef is closed before
\* the next entry.
C7_Guards ==
    /\ Len(OfKind(headerOut, "decl")) = Len(calls)
    /\ Len(OfKind(cppOut, "array")) = Len(calls)
    /\ \A m \in 1..Len(calls) :
         LET f == calls[m]
             hp == PosOf(headerOut, "decl", m)
             cp == PosOf(cppOut, "array", m)
             up == toUpperCase(f.path[Len(f.path) - 1])
         IN  IF Len(f.path) > 2
             THEN /\ headerOut[hp - 1] = Tok("ifdef", up, 0, NoStr)
                  /\ headerOut[hp + 1].kind = "endif"
                  /\ cppOut[cp - 1] = Tok("ifdef", up, 0, NoStr)
                  /\ cppOut[cp + 1].kind = "alias"
                  /\ cppOut[cp + 2].kind = "endif"
             ELSE /\ headerOut[hp - 1].kind # "ifdef"
                  /\ (hp + 1 <= Len(headerOut) => headerOut[hp + 1].kind # "endif")
                  /\ cppOut[cp - 1].kind # "ifdef"
                  /\ cppOut[cp + 1].kind = "alias"
                  /\ (cp + 2 <= Len(cppOut) => cppOut[cp + 2].kind # "endif")
    /\ \A p \in 1..Len(headerOut) :
         headerOut[p].kind = "ifdef" =>
            (p + 2 <= Len(headerOut) /\ headerOut[p + 1].kind = "decl"
               /\ headerOut[p + 2].kind = "endif")
    /\ \A p \in 1..Len(cppOut) :
         cppOut[p].kind = "ifdef" =>
            (p + 3 <= Len(cppOut) /\ cppOut[p + 1].kind = "array"
               /\ cppOut[p + 2].kind = "alias" /\ cppOut[p + 3].kind = "endif")
    /\ Len(OfKind(headerOut, "ifdef")) = Len(OfKind(headerOut, "endif"))
    /\ Len(OfKind(cppOut, "ifdef")) = Len(OfKind(cppOut, "endif"))

C7_Witness ==
    /\ pc = "total"
    /\ \E m \in 1..Len(calls) : Len(calls[m].path) = 2
    /\ \E m \in 1..Len(calls) : Len(calls[m].path) = 3
    /\ \E m \in 1..Len(calls) :
          /\ Len(calls[m].path) = 4
          /\ headerOut[PosOf(headerOut, "decl", m) - 1].name = <<"E", "2">>

\* a file the hidden-file predicate excludes, as the specification words it
IsFilteredOut(f) ==
    \/ NameIsHidden(getFileName(f))
    \/ Len(ContentsOf(f)) = 0
    \/ HasHiddenDirectory(f)

\* C8: the files are encoded in collector order with one run-wide counter: the
\* k-th encoded file gives the k-th declaration, the k-th array, named temp<k>,
\* and right after it the symbol that aliases temp<k>; filtered files use no
\* number, so the numbers are 1..m.
C8_OrderAndNumbers ==
    LET arrays == OfKind(cppOut, "array")
        aliases == OfKind(cppOut, "alias")
        decls == OfKind(headerOut, "decl")
    IN  /\ calls = SelectSeq(SubSeq(files, 1, i), LAMBDA f : ~ IsFilteredOut(f))
        /\ Len(arrays) = Len(calls)
        /\ Len(aliases) = Len(calls)
        /\ Len(decls) = Len(calls)
        /\ tempNum = Len(calls)
        /\ \A k \in 1..Len(calls) :
              /\ arrays[k].num = k
              /\ aliases[k].num = k
              /\ PosOf(cppOut, "alias", k) = PosOf(cppOut, "array", k) + 1
              /\ decls[k].name = aliases[k].name
              /\ decls[k].num = Len(ContentsOf(calls[k]))

C8_Witness ==
    /\ pc = "total"
    /\ Len(files) = 3
    /\ Len(calls) = 2
    /\ IsFilteredOut(files[2])
    /\ InSubDirectory(calls[1])
    /\ ~ InSubDirectory(calls[2])
    /\ OfKind(cppOut, "array")[2].num = 2

\* C9 as stated: no two declarations carry the same name.
C9_Original ==
    \A j, k \in 1..Len(OfKind(headerOut, "decl")) :
        j # k => OfKind(headerOut, "decl")[j].name # OfKind(headerOut, "decl")[k].name

\* what a file name keeps of its characters: ' ' and '.' count as '_', letters
\* without their case, digits and '_' as they are, nothing else
FoldChar(c) ==
    IF c \in {" ", ".", "_"} THEN <<"_">>
    ELSE IF \E d \in 1..10 : DigitChars[d] = c THEN <<c>>
    ELSE IF \E l \in 1..26 : c \in {LowerLetters[l], UpperLetters[l]}
         THEN <<LowerLetters[CHOOSE l \in 1..26 : c \in {LowerLetters[l], UpperLetters[l]}]>>
    ELSE << >>

RECURSIVE Fold(_)
Fold(name) == IF Len(name) = 0 THEN << >> ELSE FoldChar(name[1]) \o Fold(Tail(name))

\* C9 amended: the tool does not make the names unique: two declarations carry
\* the same name exactly when their files' names are equal once case is
\* ignored, ' ' and '.' are read as '_' and every character other than a
\* letter, a digit or '_' is dropped, whatever the directories of the files.
C9_Amended ==
    /\ Len(OfKind(headerOut, "decl")) = Len(calls)
    /\ \A j, k \in 1..Len(calls) :
         (OfKind(headerOut, "decl")[j].name = OfKind(headerOut, "decl")[k].name)
            <=> (Fold(getFileName(calls[j])) = Fold(getFileName(calls[k])))

C9_Witness ==
    /\ pc = "total"
    /\ Len(calls) = 3
    /\ OfKind(headerOut, "decl")[1].name = OfKind(headerOut, "decl")[2].name
    /\ OfKind(headerOut, "decl")[1].name # OfKind(headerOut, "decl")[3].name
    /\ getFileName(calls[1]) # getFileName(calls[2])

\* C10: past the empty-result check both old outputs are deleted before a
\* stream is opened; if the header cannot be opened the cpp file is not
\* created; if the cpp file cannot be opened the header exists and stays; in
\* both cases nothing was written, for nothing is written before both streams
\* are open.
C10_DeleteAndOpen ==
    /\ pc = "openHeader" =>
         (destH = "absent" /\ destC = "absent" /\ ~ header /\ ~ cpp)
    /\ (header \/ cpp \/ destH = "created" \/ destC = "created") =>
         (destH # "stale" /\ destC # "stale")
    /\ (pc = "done" /\ Printed("cantopen")
          /\ OfKind(stdout, "cantopen")[1].name = <<"h">>) =>
         (destH = "absent" /\ destC = "absent" /\ headerOut = << >> /\ cppOut = << >>)
    /\ (pc = "done" /\ Printed("cantopen")
          /\ OfKind(stdout, "cantopen")[1].name = <<"c", "p", "p">>) =>
         (destH = "created" /\ destC = "absent" /\ headerOut = << >> /\ cppOut = << >>)
    /\ (headerOut # << >> \/ cppOut # << >>) => (destH = "created" /\ destC = "created")

C10_Witness ==
    /\ pc = "done"
    /\ Printed("cantopen")
    /\ OfKind(stdout, "cantopen")[1].name = <<"c", "p", "p">>
    /\ destH = "created"
    /\ destC = "absent"

KindsOf(out) == [k \in 1..Len(out) |-> out[k].kind]
BothOpened == destH = "created" /\ destC = "created"

\* C11: in a run that opened both streams the header gets its opening (include
\* guard and namespace) once, first, and its closing once, last; nothing is
\* written to either stream after the closing; both streams are closed when the
\* total is printed; with every collected file filtered out the block is empty
\* and the total is 0.
C11_HeaderFraming ==
    /\ []( /\ Len(OfKind(headerOut, "prolog")) <= 1
           /\ Len(OfKind(headerOut, "epilog")) <= 1
           /\ headerOut # << >> =>
                (BothOpened /\ headerOut[1].kind = "prolog" /\ headerOut[1].name = className)
           /\ pc = "loop" =>
                (header /\ cpp /\ Len(OfKind(headerOut, "prolog")) = 1
                   /\ Len(OfKind(headerOut, "epilog")) = 0)
           /\ (pc \in {"total", "done"} /\ BothOpened) =>
                /\ Len(OfKind(headerOut, "prolog")) = 1
                /\ Len(OfKind(headerOut, "epilog")) = 1
                /\ headerOut[Len(headerOut)].kind = "epilog"
                /\ ~ header /\ ~ cpp
           /\ Printed("total") =>
                (BothOpened /\ ~ header /\ ~ cpp /\ stdout[Len(stdout)].kind = "total")
           /\ (Printed("total") /\ calls = << >>) =>
                /\ KindsOf(headerOut) = <<"prolog", "epilog">>
                /\ KindsOf(cppOut) = <<"prolog">>
                /\ OfKind(stdout, "total")[1].num = 0 )
    /\ [][ Len(OfKind(headerOut, "epilog")) > 0 =>
             (headerOut' = headerOut /\ cppOut' = cppOut) ]_vars
    /\ [][ (headerOut' # headerOut \/ cppOut' # cppOut) => (header /\ cpp) ]_vars

C11_Witness ==
    /\ Printed("total")
    /\ Len(calls) >= 2
    /\ Len(headerOut) >= 4
    /\ headerOut[Len(headerOut)].kind = "epilog"
    /\ ~ header /\ ~ cpp

\* C12: every read data[i] of addFile stays inside the loaded block: addFile is
\* only called with a block of at least one byte (the bytes of a file whose
\* size isHiddenFile saw as non-zero), so size - 1 never wraps and no array
\* holds an undefined value.
C12_ReadsInBounds ==
    /\ \A k \in 1..Len(calls) :
         /\ Len(loadFileAsData(calls[k])) >= 1
         /\ Len(loadFileAsData(calls[k])) = calls[k].size
         /\ LastIndexRead(loadFileAsData(calls[k])) < Len(loadFileAsData(calls[k]))
         /\ LastIndexRead(loadFileAsData(calls[k])) # SizeMax
    /\ \A p \in 1..Len(cppOut) :
         \A c \in 1..Len(cppOut[p].text) : cppOut[p].text[c] # "?"

C12_Witness ==
    /\ pc = "total"
    /\ \E k \in 1..Len(calls) : Len(loadFileAsData(calls[k])) = 1
    /\ \E k \in 1..Len(calls) : Len(loadFileAsData(calls[k])) > WrapColumns
    /\ \E k \in 1..Len(files) : files[k].size = 0 /\ ~ WasCalled(files[k])

====
